---- MODULE Spec2Model ----
(***************************************************************************)
(* Template matching with sub-pixel precision (template_matching.py).      *)
(*                                                                         *)
(* A position is a pair <<x, y>> of fixed-point numbers counted in         *)
(* 1/Scale pixel; every value the code computes from the modelled inputs   *)
(* (integer pixels, halves of template sizes, quarter-pixel peak offsets)  *)
(* is exact in that unit, as it is in a float64.  A frame is modelled by   *)
(* what the library primitives read from it: for each template, where the  *)
(* correlation surface peaks (tgt, the top-left corner of the best match   *)
(* in frame coordinates) and where, relative to the centre of the peak     *)
(* window, the optimizer ends (frac).  All frames of one frame_array share *)
(* one shape.                                                              *)
(***************************************************************************)
EXTENDS Integers, Sequences, FiniteSets, TLC

VARIABLES
    call,               \* which entry point runs
    frame_array,        \* the frames, in order
    frame_shape,        \* [h, w] of every frame
    template,           \* template (left_template of the dual tracker)
    right_template,     \* right_template of the dual tracker
    initial_position,   \* <<x, y>>, or <<<<xl, yl>>, <<xr, yr>>>> (dual)
    roi_offset_size,
    interpol_mat_size,
    pc,                 \* where the loop stands
    idx,                \* number of frames the for loop has taken
    currp,              \* template_tracking: current position
    pl,                 \* template_tracking_dual: left position
    pr,                 \* template_tracking_dual: right position
    points,             \* the list being built
    err,                \* the exception that left the call, or NoErr
    calls               \* every __find_max_subpixel_roi call made, in order

vars == <<call, frame_array, frame_shape, template, right_template,
          initial_position, roi_offset_size, interpol_mat_size,
          pc, idx, currp, pl, pr, points, err, calls>>

inputs == <<call, frame_array, frame_shape, template, right_template,
            initial_position, roi_offset_size, interpol_mat_size>>

(***************************************************************************)
(* Numbers                                                                 *)
(***************************************************************************)
Scale == 4

\* roi_offset_size = 50, interpol_mat_size = 11: the defaults of both entry points
DefaultOffset == 50
DefaultMatSize == 11

\* the literal 2 of  max_loc[0] - (2 - max_loc2[0]) + y/2
RemapConst == 2

\* longest frame_array of the general inputs
MaxFrames == 3

Px(n) == n * Scale

Max2(a, b) == IF a > b THEN a ELSE b
Min2(a, b) == IF a < b THEN a ELSE b

\* np.around(v).astype(int) of v/Scale: round to nearest, ties to the even integer
Around(v) ==
    LET fl == v \div Scale
        r  == v % Scale
    IN  IF 2 * r < Scale THEN fl
        ELSE IF 2 * r > Scale THEN fl + 1
        ELSE IF fl % 2 = 0 THEN fl ELSE fl + 1

\* a[start:stop] on an axis of length len: the bound i as numpy normalises it
SliceBound(i, len) ==
    IF i < 0 THEN Max2(i + len, 0) ELSE Min2(i, len)

(***************************************************************************)
(* __find_max_subpixel_roi, lines 28-37: the ROI rectangle                  *)
(***************************************************************************)
ComputeROI(templ, shape, pos, offset) ==
    LET h   == templ.h
        w   == templ.w
        fh  == shape.h
        fw  == shape.w
        xs0 == Around(pos[1] - (w * Scale) \div 2 - Px(offset))
        xe0 == Around(pos[1] + (w * Scale) \div 2 + Px(offset))
        ys0 == Around(pos[2] - (h * Scale) \div 2 - Px(offset))
        ye0 == Around(pos[2] + (h * Scale) \div 2 + Px(offset))
    IN  [xs |-> IF xs0 < 0 THEN 0 ELSE xs0,
         xe |-> IF xe0 >= fw THEN fw - 1 ELSE xe0,
         ys |-> IF ys0 < 0 THEN 0 ELSE ys0,
         ye |-> IF ye0 >= fh THEN fh - 1 ELSE ye0]

\* roi = frame[ys:ye, xs:xe]: the rows and columns numpy takes
SliceROI(shape, r) ==
    LET c0 == SliceBound(r.xs, shape.w)
        c1 == SliceBound(r.xe, shape.w)
        r0 == SliceBound(r.ys, shape.h)
        r1 == SliceBound(r.ye, shape.h)
    IN  [x0 |-> c0, y0 |-> r0,
         w |-> Max2(c1 - c0, 0), h |-> Max2(r1 - r0, 0)]

(***************************************************************************)
(* cv2.matchTemplate and cv2.minMaxLoc, lines 40-41.  matchTemplate swaps  *)
(* image and template when the image is the smaller one in both            *)
(* dimensions and raises when it is smaller in one only; the surface is    *)
(* (big - small + 1) in each dimension.  The surface peaks at the cell     *)
(* nearest to the frame's target.                                          *)
(***************************************************************************)
Clamp(v, lo, hi) == IF v < lo THEN lo ELSE IF v > hi THEN hi ELSE v

MatchTemplate(frame, templ, roi) ==
    LET smaller == roi.h < templ.h \/ roi.w < templ.w
        fits    == roi.h <= templ.h /\ roi.w <= templ.w
        sw      == IF smaller THEN templ.w - roi.w + 1 ELSE roi.w - templ.w + 1
        sh      == IF smaller THEN templ.h - roi.h + 1 ELSE roi.h - templ.h + 1
        t       == frame.tgt[templ.id]
    IN  IF (smaller /\ ~fits) \/ roi.w = 0 \/ roi.h = 0
        THEN [ok |-> FALSE, w |-> 0, h |-> 0, max_loc |-> <<0, 0>>]
        ELSE [ok |-> TRUE, w |-> sw, h |-> sh,
              max_loc |-> <<Clamp(t[1] - roi.x0, 0, sw - 1),
                            Clamp(t[2] - roi.y0, 0, sh - 1)>>]

(***************************************************************************)
(* __pull_matrix, lines 20-25.  A cell of the window is the <<row, col>>   *)
(* of the surface it was read from.  frame[i] raises IndexError outside    *)
(* -h .. h-1 and reads row h+i for a negative i; the column slice never    *)
(* raises.                                                                 *)
(***************************************************************************)
HalfSize(size) == (size - 1) \div 2

PullRowOK(i, surf) == i < surf.h /\ i >= -surf.h

PullRow(i, size, surf, loc) ==
    LET half == HalfSize(size)
        ri   == IF i < 0 THEN i + surf.h ELSE i
        c0   == SliceBound(loc[1] - half, surf.w)
        c1   == SliceBound(loc[1] + half + 1, surf.w)
    IN  [c \in 1..Max2(c1 - c0, 0) |-> <<ri, c0 + c - 1>>]

PullMatrix(size, surf, loc) ==
    LET half == HalfSize(size)
        lo   == loc[2] - half
        hi   == loc[2] + half
    IN  IF \E i \in lo..hi : ~PullRowOK(i, surf)
        THEN [ok |-> FALSE, mat |-> <<>>]
        ELSE [ok |-> TRUE,
              mat |-> [j \in 1..(hi - lo + 1) |-> PullRow(lo + j - 1, size, surf, loc)]]

(***************************************************************************)
(* interpolate.interp2d(xy, xy, mat, kind='cubic'), lines 44-45: raises    *)
(* unless mat has matsize rows of matsize values                           *)
(***************************************************************************)
Interp2dOK(mat, matsize) ==
    /\ Len(mat) = matsize
    /\ \A j \in 1..Len(mat) : Len(mat[j]) = matsize

(***************************************************************************)
(* optimize.fmin from the window centre, lines 47-49: where it ends        *)
(***************************************************************************)
Fmin(frame, matsize) ==
    <<((matsize - 1) * Scale) \div 2 + frame.frac[1],
      ((matsize - 1) * Scale) \div 2 + frame.frac[2]>>

(***************************************************************************)
(* lines 51-58: back to frame coordinates                                  *)
(***************************************************************************)
Remap(templ, r, max_loc, max_loc2) ==
    LET x  == templ.h
        y  == templ.w
        nx == Px(max_loc[1]) - (Px(RemapConst) - max_loc2[1]) + (y * Scale) \div 2
        ny == Px(max_loc[2]) - (Px(RemapConst) - max_loc2[2]) + (x * Scale) \div 2
    IN  <<Px(r.xs) + nx, Px(r.ys) + ny>>

NoPos == <<>>
NoErr == [kind |-> "none"]

(***************************************************************************)
(* __find_max_subpixel_roi, lines 27-58.  The record holds the outcome     *)
(* (ok and pos, or the kind of the exception raised) and what the call     *)
(* computed on the way.  Each local of the function (the rectangle, res    *)
(* and max_loc, mat) is a value computed once and handed on, as in the     *)
(* code: v \in {e} binds v to the value of e.                              *)
(***************************************************************************)
Only(S) == CHOOSE v \in S : TRUE

CallRecord(templ, pos, matsize, r, res) ==
    [center |-> pos, rect |-> r, templ |-> templ, matsize |-> matsize,
     surf |-> [w |-> res.w, h |-> res.h], max_loc |-> res.max_loc]

\* lines 44-58, with mat pulled
Localize(frame, templ, pos, matsize, r, res, pull) ==
    IF ~res.ok
    THEN CallRecord(templ, pos, matsize, r, res)
            @@ [ok |-> FALSE, kind |-> "cv2.error", pulled |-> FALSE,
                mat |-> <<>>, pos |-> NoPos]
    ELSE IF ~pull.ok
    THEN CallRecord(templ, pos, matsize, r, res)
            @@ [ok |-> FALSE, kind |-> "IndexError", pulled |-> FALSE,
                mat |-> <<>>, pos |-> NoPos]
    ELSE IF ~Interp2dOK(pull.mat, matsize)
    THEN CallRecord(templ, pos, matsize, r, res)
            @@ [ok |-> FALSE, kind |-> "ValueError", pulled |-> TRUE,
                mat |-> pull.mat, pos |-> NoPos]
    ELSE CallRecord(templ, pos, matsize, r, res)
            @@ [ok |-> TRUE, kind |-> "none", pulled |-> TRUE,
                mat |-> pull.mat,
                pos |-> Remap(templ, r, res.max_loc, Fmin(frame, matsize))]

\* line 42, with res and max_loc known
PullAndLocalize(frame, templ, pos, matsize, r, res) ==
    Only({Localize(frame, templ, pos, matsize, r, res, pull) :
            pull \in {IF res.ok THEN PullMatrix(matsize, res, res.max_loc)
                                ELSE [ok |-> FALSE, mat |-> <<>>]}})

\* lines 39-41, with the rectangle known
MatchAndLocalize(frame, templ, pos, matsize, shape, r) ==
    Only({PullAndLocalize(frame, templ, pos, matsize, r, res) :
            res \in {MatchTemplate(frame, templ, SliceROI(shape, r))}})

FindMaxSubpixelROI(frame, templ, pos, offset, matsize, shape) ==
    Only({MatchAndLocalize(frame, templ, pos, matsize, shape, r) :
            r \in {ComputeROI(templ, shape, pos, offset)}})

(***************************************************************************)
(* Inputs                                                                  *)
(***************************************************************************)
TA    == [id |-> 1, h |-> 3, w |-> 5]
TB    == [id |-> 2, h |-> 4, w |-> 4]
TSelf == [id |-> 3, h |-> 11, w |-> 11]

Templates == {TA, TB}

GeneralShape == [h |-> 20, w |-> 24]
SelfShape    == [h |-> 100, w |-> 100]

\* frames of the general inputs: tgt[id] is the best match of template id
FrameMid    == [tgt |-> <<<<10, 8>>, <<10, 8>>, <<0, 0>>>>,   frac |-> <<0, 0>>]
FrameMoved  == [tgt |-> <<<<11, 9>>, <<10, 7>>, <<0, 0>>>>,  frac |-> <<1, -1>>]
FrameTop    == [tgt |-> <<<<10, 1>>, <<1, 8>>, <<0, 0>>>>,   frac |-> <<-1, 2>>]
FrameCorner == [tgt |-> <<<<18, 16>>, <<19, 3>>, <<0, 0>>>>, frac |-> <<0, 1>>]

FrameCatalog == {FrameMid, FrameMoved, FrameTop, FrameCorner}

\* the frame of the self-match scenario: a 11 x 11 square whose centre pixel
\* is (50, 50), so that the square's top-left corner is (45, 45)
FrameSelf == [tgt |-> <<<<0, 0>>, <<0, 0>>, <<45, 45>>>>, frac |-> <<0, 0>>]

FrameArrays == UNION {[1..n -> FrameCatalog] : n \in 0..MaxFrames}

Offsets  == {0, 2, DefaultOffset}
MatSizes == {5, DefaultMatSize}

PMid    == <<Px(12), Px(10)>>
PCorner == <<Px(1), Px(1)>>
PFar    == <<Px(22), Px(18)>>
PLeft   == <<Px(-40), Px(10)>>
PBelow  == <<Px(12), Px(90)>>
PNear   == <<Px(12), Px(13)>>

InitialPositions == {PMid, PNear, PCorner, PFar, PLeft, PBelow}
InitialPairs ==
    {<<PMid, PMid>>, <<PNear, PNear>>, <<PMid, PNear>>, <<PMid, PBelow>>}

Start ==
    /\ pc = "awaiting"
    /\ idx = 0
    /\ points = <<>>
    /\ err = NoErr
    /\ calls = <<>>

\* template_tracking(frame_array, template, initial_position, ...), lines 79-80
InitSingle ==
    /\ call = "template_tracking"
    /\ frame_shape = GeneralShape
    /\ frame_array \in FrameArrays
    /\ template \in Templates
    /\ right_template = template
    /\ initial_position \in InitialPositions
    /\ roi_offset_size \in Offsets
    /\ interpol_mat_size \in MatSizes
    /\ currp = initial_position
    /\ pl = NoPos
    /\ pr = NoPos
    /\ Start

\* template_tracking_dual(frame_array, left_template, right_template, ...), lines 105-107
InitDual ==
    /\ call = "template_tracking_dual"
    /\ frame_shape = GeneralShape
    /\ frame_array \in FrameArrays
    /\ template \in Templates
    /\ right_template \in Templates
    /\ initial_position \in InitialPairs
    /\ roi_offset_size \in Offsets
    /\ interpol_mat_size \in MatSizes
    /\ currp = NoPos
    /\ pl = initial_position[1]
    /\ pr = initial_position[2]
    /\ Start

\* the self-match scenario: five identical 100 x 100 frames, the 11 x 11
\* template cut from them, initial_position (50, 50), the default margins
InitSelfMatch ==
    /\ call = "template_tracking"
    /\ frame_shape = SelfShape
    /\ frame_array = [i \in 1..5 |-> FrameSelf]
    /\ template = TSelf
    /\ right_template = TSelf
    /\ initial_position = <<Px(50), Px(50)>>
    /\ roi_offset_size = DefaultOffset
    /\ interpol_mat_size = DefaultMatSize
    /\ currp = initial_position
    /\ pl = NoPos
    /\ pr = NoPos
    /\ Start

Init == InitSingle \/ InitDual \/ InitSelfMatch

(***************************************************************************)
(* The loops, lines 81-84 and 108-112                                      *)
(***************************************************************************)
Single == call = "template_tracking"
Dual   == call = "template_tracking_dual"

FindMax(templ, pos) ==
    FindMaxSubpixelROI(frame_array[idx], templ, pos, roi_offset_size,
                       interpol_mat_size, frame_shape)

\* (mutant) the exception is caught and the positions found so far returned
RaiseReturnsPartial(r) ==
    /\ pc' = "done"
    /\ err' = err

Raise(r) ==
    /\ pc' = "failed"
    /\ err' = [kind |-> r.kind]

\* for frame in frame_array: the iterator hands out the next frame
NextFrame ==
    /\ pc = "awaiting"
    /\ idx < Len(frame_array)
    /\ idx' = idx + 1
    /\ pc' = IF Single THEN "matching" ELSE "matching_left"
    /\ UNCHANGED <<inputs, currp, pl, pr, points, err, calls>>

\* (mutant) every frame is searched around initial_position
MatchAroundInitial ==
    /\ pc = "matching"
    /\ \E r \in {FindMax(template, initial_position)} :
           /\ calls' = Append(calls, r)
           /\ IF r.ok
              THEN currp' = r.pos /\ pc' = "refined" /\ err' = err
              ELSE currp' = currp /\ Raise(r)
    /\ UNCHANGED <<inputs, idx, pl, pr, points>>

\* (mutant) a frame that raises is skipped and the loop goes on
MatchSkipsFailure ==
    /\ pc = "matching"
    /\ \E r \in {FindMax(template, currp)} :
           /\ calls' = Append(calls, r)
           /\ currp' = IF r.ok THEN r.pos ELSE currp
           /\ pc' = IF r.ok THEN "refined" ELSE "awaiting"
           /\ err' = err
    /\ UNCHANGED <<inputs, idx, pl, pr, points>>

\* currp = __find_max_subpixel_roi(frame, template, currp, ...), line 82
Match ==
    /\ pc = "matching"
    /\ \E r \in {FindMax(template, currp)} :
           /\ calls' = Append(calls, r)
           /\ IF r.ok
              THEN currp' = r.pos /\ pc' = "refined" /\ err' = err
              ELSE currp' = currp /\ Raise(r)
    /\ UNCHANGED <<inputs, idx, pl, pr, points>>

\* (mutant) points.insert(0, currp)
AppendPointInFront ==
    /\ pc = "refined"
    /\ Single
    /\ points' = <<currp>> \o points
    /\ pc' = "awaiting"
    /\ UNCHANGED <<inputs, idx, currp, pl, pr, err, calls>>

\* points.append(currp), line 83
AppendPoint ==
    /\ pc = "refined"
    /\ Single
    /\ points' = Append(points, currp)
    /\ pc' = "awaiting"
    /\ UNCHANGED <<inputs, idx, currp, pl, pr, err, calls>>

\* (mutant) the left template is searched around the right position
MatchLeftAroundRight ==
    /\ pc = "matching_left"
    /\ \E r \in {FindMax(template, pr)} :
           /\ calls' = Append(calls, r)
           /\ IF r.ok
              THEN pl' = r.pos /\ pc' = "matching_right" /\ err' = err
              ELSE pl' = pl /\ Raise(r)
    /\ UNCHANGED <<inputs, idx, currp, pr, points>>

\* pl = __find_max_subpixel_roi(frame, left_template, pl, ...), line 109
MatchLeft ==
    /\ pc = "matching_left"
    /\ \E r \in {FindMax(template, pl)} :
           /\ calls' = Append(calls, r)
           /\ IF r.ok
              THEN pl' = r.pos /\ pc' = "matching_right" /\ err' = err
              ELSE pl' = pl /\ Raise(r)
    /\ UNCHANGED <<inputs, idx, currp, pr, points>>

\* (mutant) the right template is searched around the left position
MatchRightAroundLeft ==
    /\ pc = "matching_right"
    /\ \E r \in {FindMax(right_template, pl)} :
           /\ calls' = Append(calls, r)
           /\ IF r.ok
              THEN pr' = r.pos /\ pc' = "refined" /\ err' = err
              ELSE pr' = pr /\ Raise(r)
    /\ UNCHANGED <<inputs, idx, currp, pl, points>>

\* pr = __find_max_subpixel_roi(frame, right_template, pr, ...), line 110
MatchRight ==
    /\ pc = "matching_right"
    /\ \E r \in {FindMax(right_template, pr)} :
           /\ calls' = Append(calls, r)
           /\ IF r.ok
              THEN pr' = r.pos /\ pc' = "refined" /\ err' = err
              ELSE pr' = pr /\ Raise(r)
    /\ UNCHANGED <<inputs, idx, currp, pl, points>>

\* points.append([pl, pr]), line 111
AppendPair ==
    /\ pc = "refined"
    /\ Dual
    /\ points' = Append(points, <<pl, pr>>)
    /\ pc' = "awaiting"
    /\ UNCHANGED <<inputs, idx, currp, pl, pr, err, calls>>

\* return points, lines 84 and 112: the frames are exhausted
Return ==
    /\ pc = "awaiting"
    /\ idx = Len(frame_array)
    /\ pc' = "done"
    /\ UNCHANGED <<inputs, idx, currp, pl, pr, points, err, calls>>

Next ==
    \/ NextFrame
    \/ Match
    \/ AppendPoint
    \/ MatchLeft
    \/ MatchRight
    \/ AppendPair
    \/ Return

Spec == Init /\ [][Next]_vars

\* the calls whose runs are followed to their end: both entry points on every
\* frame_array, template and initial position, with the 5 x 5 peak window and
\* a margin of 2 (a ROI around the position) or 50 (the whole frame)
InitLoop ==
    /\ InitSingle \/ InitDual
    /\ roi_offset_size \in {2, DefaultOffset}
    /\ interpol_mat_size = 5

\* the interpreter runs the loop to its end: no step waits for anything
FairSpec == InitLoop /\ [][Next]_vars /\ WF_vars(Next)

Terminal == pc \in {"done", "failed"}

(***************************************************************************)
(* template_tracking as a fold, lines 79-84: the calls the single tracker  *)
(* makes on the first n frames for a template and an initial position,     *)
(* each fed the position of the one before, up to the first that raises    *)
(***************************************************************************)
RECURSIVE TrackCalls(_, _, _)
TrackCalls(templ, init, n) ==
    IF n = 0 THEN <<>>
    ELSE LET prev == TrackCalls(templ, init, n - 1)
         IN  IF Len(prev) < n - 1 \/ (n > 1 /\ ~prev[n - 1].ok)
             THEN prev
             ELSE Append(prev,
                         FindMaxSubpixelROI(frame_array[n], templ,
                                            IF n = 1 THEN init ELSE prev[n - 1].pos,
                                            roi_offset_size, interpol_mat_size,
                                            frame_shape))

\* the position of frame k among the calls t of the single tracker, NoPos if
\* it never gets there
PosAt(t, k) == IF Len(t) >= k /\ t[k].ok THEN t[k].pos ELSE NoPos

\* the position the single tracker refines from frame k
TrackPos(templ, init, k) == PosAt(TrackCalls(templ, init, k), k)

\* what template_tracking returns: every position, or nothing when a frame raised
TrackResult(templ, init) ==
    LET n == Len(frame_array)
        c == TrackCalls(templ, init, n)
    IN  IF Len(c) = n /\ (n = 0 \/ c[n].ok) THEN [k \in 1..n |-> c[k].pos] ELSE <<>>

\* what the call hands to its caller
Returned == IF pc = "done" THEN points ELSE <<>>

(***************************************************************************)
(* Claims                                                                  *)
(***************************************************************************)
Abs(v) == IF v < 0 THEN -v ELSE v

\* C1: a call that returns on a non-empty frame_array returns one entry per
\* frame, and entry k is the position refined from frame k (the pair of the
\* left and the right position, for the dual tracker)
C1_OnePositionPerFrame ==
    (pc = "done" /\ Len(frame_array) > 0) =>
        /\ Len(points) = Len(frame_array)
        /\ Single =>
              LET t == TrackCalls(template, initial_position, Len(points))
              IN  \A k \in 1..Len(points) :
                      points[k] = PosAt(t, k) /\ points[k] # NoPos
        /\ Dual =>
              LET l == TrackCalls(template, initial_position[1], Len(points))
                  r == TrackCalls(right_template, initial_position[2], Len(points))
              IN  \A k \in 1..Len(points) :
                      /\ points[k] = <<PosAt(l, k), PosAt(r, k)>>
                      /\ points[k][1] # NoPos
                      /\ points[k][2] # NoPos

C1_Witness ==
    /\ pc = "done"
    /\ Len(points) >= 2
    /\ points[1] # points[2]

\* C2: the single tracker computes the ROI of frame 0 around initial_position
\* and the ROI of every later frame around exactly the position it appended
\* for the frame before
C2_CenterIsPreviousPosition ==
    Single =>
        \A k \in 1..Len(calls) :
            calls[k].center = IF k = 1 THEN initial_position ELSE points[k - 1]

C2_Witness ==
    /\ Single
    /\ Len(calls) >= 3
    /\ calls[2].center # initial_position
    /\ calls[3].center # calls[2].center

RectInFrame(r, shape) ==
    /\ 0 <= r.xs /\ r.xs < shape.w
    /\ 0 <= r.xe /\ r.xe < shape.w
    /\ 0 <= r.ys /\ r.ys < shape.h
    /\ 0 <= r.ye /\ r.ye < shape.h

\* C3 (as claimed): every ROI rectangle computed lies within the frame:
\* 0 <= xs, xe < frame_width and 0 <= ys, ye < frame_height
C3_ROIWithinFrame ==
    \A k \in 1..Len(calls) : RectInFrame(calls[k].rect, frame_shape)

Within(p, q, num, den) ==
    /\ den * Abs(p[1] - q[1]) < num * Scale
    /\ den * Abs(p[2] - q[2]) < num * Scale

\* C4 (as claimed): in the self-match scenario template_tracking returns five
\* positions, each within 0.05 pixel of (50, 50)
C4_SelfMatchIdentity ==
    (frame_shape = SelfShape /\ Terminal) =>
        /\ pc = "done"
        /\ Len(points) = 5
        /\ \A k \in 1..Len(points) : Within(points[k], initial_position, 5, 100)

SameTracks ==
    /\ Dual
    /\ template = right_template
    /\ initial_position[1] = initial_position[2]

\* C5: with left_template = right_template and equal initial positions the
\* dual tracker's left and right positions agree on every frame, and each is
\* the position template_tracking computes for that frame
C5_EqualTracksAgree ==
    SameTracks =>
        /\ LET t == TrackCalls(template, initial_position[1], Len(points))
           IN  \A k \in 1..Len(points) :
                   /\ points[k][1] = points[k][2]
                   /\ points[k][1] = PosAt(t, k)
        /\ pc = "refined" => pl = pr

C5_Witness ==
    /\ SameTracks
    /\ Len(points) >= 2
    /\ points[1] # points[2]

Column(i) == [k \in 1..Len(Returned) |-> Returned[k][i]]

\* C6 (as claimed): each track of the dual tracker emits what it would emit
\* alone, whatever the other track's template and initial position are, also
\* when one of the two tracks fails on some frame
C6_TracksFullyIndependent ==
    (Dual /\ Terminal) =>
        /\ Column(1) = TrackResult(template, initial_position[1])
        /\ Column(2) = TrackResult(right_template, initial_position[2])

\* C6 (amended): every left position the dual tracker computes is the one the
\* left template and the left initial position alone determine, and so for
\* the right; a frame on which either track raises ends the call for both
C6_ComputedPositionsIndependent ==
    Dual =>
        LET l == TrackCalls(template, initial_position[1], idx)
            r == TrackCalls(right_template, initial_position[2], idx)
        IN  /\ \A k \in 1..Len(points) :
                  /\ points[k][1] = PosAt(l, k)
                  /\ points[k][2] = PosAt(r, k)
            /\ pc \in {"matching_right", "refined"} => pl = PosAt(l, idx)
            /\ pc = "refined" => pr = PosAt(r, idx)
            /\ pc = "failed" => Returned = <<>>

C6_Witness ==
    /\ Dual
    /\ pc = "failed"
    /\ Len(calls) % 2 = 0
    /\ Len(points) >= 1
    /\ TrackResult(template, initial_position[1]) # <<>>

WindowOutside(c) ==
    LET half == HalfSize(c.matsize)
    IN  \/ c.max_loc[1] < half
        \/ c.max_loc[2] < half
        \/ c.max_loc[1] > c.surf.w - 1 - half
        \/ c.max_loc[2] > c.surf.h - 1 - half

CentredWindow(c) ==
    LET half == HalfSize(c.matsize)
    IN  [j \in 1..c.matsize |->
            [i \in 1..c.matsize |->
                <<c.max_loc[2] - half + j - 1, c.max_loc[1] - half + i - 1>>]]

\* C7 (as claimed): a step whose discrete maximum lies closer than
\* (N - 1) / 2 to an edge of the correlation surface raises, and a step that
\* does not raise has read the N x N cells centred on the maximum
C7_WindowOutsideRaises ==
    \A k \in 1..Len(calls) :
        LET c == calls[k]
        IN  /\ (c.kind # "cv2.error" /\ WindowOutside(c)) => ~c.ok
            /\ c.ok => c.mat = CentredWindow(c)

\* C8 (as claimed): a call with an empty frame_array ends with a
\* configuration error, returns nothing and runs no per-frame step
C8_EmptyInputRejected ==
    (Len(frame_array) = 0 /\ Terminal) =>
        /\ pc = "failed"
        /\ err.kind = "ConfigurationError"
        /\ calls = <<>>

ErrFrame(e) == IF "frame" \in DOMAIN e THEN e.frame ELSE -1

\* C9 (as claimed): template_tracking ends either returning one position per
\* frame or with an error that names the failing frame and the failure kind
C9_CompleteOrIndexedError ==
    (Single /\ Terminal) =>
        \/ pc = "done" /\ Len(points) = Len(frame_array)
        \/ pc = "failed" /\ err.kind # "none" /\ ErrFrame(err) = idx - 1

\* C9 (amended): template_tracking ends either returning one position per
\* frame, or with the exception of the failing step, unchanged: it tells the
\* failure kind and carries no frame index; it never returns fewer positions
\* than there are frames
C9_CompleteOrPropagatedError ==
    (Single /\ Terminal) =>
        \/ pc = "done" /\ Len(points) = Len(frame_array) /\ err = NoErr
        \/ /\ pc = "failed"
           /\ Len(calls) = idx
           /\ ~calls[idx].ok
           /\ err = [kind |-> calls[idx].kind]
           /\ err.kind \in {"cv2.error", "IndexError", "ValueError"}

C9_Witness ==
    /\ Single
    /\ pc = "failed"
    /\ idx >= 2
    /\ err.kind = "IndexError"

\* a step of the single tracker (C10): it takes the frames in order, each once, cycling
\* awaiting -> matching -> refined -> awaiting; frame i+1 is taken only when
\* frame i's position has been appended; a frame that raises is not retried
\* and nothing runs after it; and every call reaches done or failed
C10_Step ==
    Single =>
        /\ pc = "awaiting" =>
              \/ pc' = "matching" /\ idx' = idx + 1 /\ Len(points) = idx
                    /\ points' = points
              \/ pc' = "done" /\ idx = Len(frame_array) /\ idx' = idx
                    /\ points' = points
        /\ pc = "matching" =>
              /\ idx' = idx
              /\ points' = points
              /\ Len(calls') = idx
              /\ pc' \in {"refined", "failed"}
        /\ pc = "refined" =>
              /\ pc' = "awaiting"
              /\ idx' = idx
              /\ Len(points') = idx
              /\ calls' = calls
        /\ pc \notin {"done", "failed"}

\* C10: every step of the single tracker is a step of that cycle, and every
\* run of it reaches done or failed
C10_InOrderOnceAndTerminates ==
    /\ [][C10_Step]_vars
    /\ Single => <>Terminal

C10_Witness ==
    /\ Single
    /\ pc = "failed"
    /\ Len(points) >= 1
    /\ Len(calls) = idx
    /\ idx < Len(frame_array)

====
